---- MODULE Spec2Model ----
(***************************************************************************)
(* LiteMark: the bookmark store (api/vercel/_lib/db.ts), the auth gate     *)
(* (api/vercel/_lib/auth.ts) and the /api/bookmarks handler                *)
(* (api/vercel/bookmarks/index.ts) as a state machine.                     *)
(*                                                                         *)
(* Encoding of JavaScript / SQL values:                                    *)
(*   - a string is a sequence of one-character strings, "" is << >>;       *)
(*   - null (JS) and NULL (SQL) are the sentinel NULL;                     *)
(*   - an optional field is a set: {} is undefined, {v} is the value v.    *)
(*                                                                         *)
(* A store operation is one step (its queries run without interleaving),   *)
(* except in SpecRace, where createBookmark is split at its await between  *)
(* the MAX query and the INSERT so that two calls can interleave.          *)
(* A query without ORDER BY, and the order of rows that an ORDER BY leaves *)
(* equal, yields every order the database may return.                      *)
(***************************************************************************)
EXTENDS Integers, Sequences, FiniteSets, TLC

VARIABLES
  bookmarks,      \* table bookmarks: id -> row
  categoryOrder,  \* table category_order: category -> "order"
  settings,       \* table settings: key -> value
  last,           \* the last store call: operation, id, whether the row was found
  res,            \* the last HTTP exchange of the bookmarks handler
  calls           \* createBookmark calls between their two queries, per caller

vars == <<bookmarks, categoryOrder, settings, last, res, calls>>

\* ------------------------------------------------------------------ bounds
MaxSeqLen == 2
MaxOrder == 5
MaxPatchFields == 1

\* ------------------------------------------------------------------ values
NULL == <<"NULL">>

Ids == {"b1", "b2", "b3"}

Max(S) == CHOOSE x \in S : \A y \in S : y <= x

Min(S) == CHOOSE x \in S : \A y \in S : x <= y

Range(s) == {s[i] : i \in 1..Len(s)}

SeqsUpTo(S, n) == UNION {[1..k -> S] : k \in 0..n}

\* the value of an optional field, d when it is undefined
Opt(x, d) == IF x = {} THEN d ELSE CHOOSE v \in x : TRUE

\* `x ?? d` on an optional string that may be null
Coalesce(x, d) == IF x = {} \/ x = {NULL} THEN d ELSE CHOOSE v \in x : TRUE

\* `s || null` on a string or null
OrNull(s) == IF s = <<>> \/ s = NULL THEN NULL ELSE s

IsSpace(c) == c = " "

RECURSIVE TrimStart(_)
TrimStart(s) ==
  IF s # <<>> /\ IsSpace(Head(s)) THEN TrimStart(Tail(s)) ELSE s

RECURSIVE TrimEnd(_)
TrimEnd(s) ==
  IF s # <<>> /\ IsSpace(s[Len(s)]) THEN TrimEnd(SubSeq(s, 1, Len(s) - 1)) ELSE s

\* String.prototype.trim
Trim(s) == TrimEnd(TrimStart(s))

normalizeCategory(category) == Trim(Coalesce(category, <<>>))

\* SQL `column = ${param}`: a comparison with NULL is never true
SqlEq(column, param) == column # NULL /\ param # NULL /\ column = param

\* SELECT COALESCE(MAX("order"), -1) FROM bookmarks WHERE category = ${param}
MaxOrderWhere(rows, param) ==
  LET S == {rows[i].order : i \in {j \in DOMAIN rows : SqlEq(rows[j].category, param)}}
  IN  IF S = {} THEN -1 ELSE Max(S)

\* the shift setting "order" = 0 in place of "order" - 1
ShiftDownToZero(rows, param, order) ==
  [i \in DOMAIN rows |->
     IF SqlEq(rows[i].category, param) /\ rows[i].order > order
       THEN [rows[i] EXCEPT !.order = 0]
       ELSE rows[i]]

\* UPDATE bookmarks SET "order" = "order" - 1
\*   WHERE category = ${param} AND "order" > ${order}
ShiftDown(rows, param, order) ==
  [i \in DOMAIN rows |->
     IF SqlEq(rows[i].category, param) /\ rows[i].order > order
       THEN [rows[i] EXCEPT !.order = @ - 1]
       ELSE rows[i]]

\* the row -> BookmarkRecord mapping of listBookmarks / updateBookmark / deleteBookmark
RowToRecord(id, row) ==
  [id |-> id, title |-> row.title, url |-> row.url,
   category |-> OrNull(row.category), description |-> OrNull(row.description),
   visible |-> (row.visible # FALSE),
   order |-> row.order]

NoCall == [op |-> "none", id |-> "", found |-> FALSE]

\* the concurrent callers of createBookmark (two requests in flight)
Callers == {"p1", "p2"}

\* a caller that is not inside createBookmark
Idle == [pc |-> "idle"]

\* ------------------------------------------------------------------ inputs
Titles == {<<"t">>}

Urls == {<<"w">>}

CategoryInputs == {{}, {NULL}, {<<>>}, {<<" ", "a", " ">>}, {<<"b">>}}

DescriptionInputs == {{}}

VisibleInputs == {{}, {FALSE}}

OrderInputs == {{}, {1}}

\* Omit<BookmarkRecord, 'id' | 'order'>
CreateInputs ==
  [title : Titles, url : Urls, category : CategoryInputs,
   description : DescriptionInputs, visible : VisibleInputs]

\* Partial<Omit<BookmarkRecord, 'id'>>, with at most MaxPatchFields fields given
Given(data) ==
  {f \in {"title", "url", "category", "description", "visible", "order"} :
     data[f] # {}}

UpdateInputs ==
  {data \in [title : {{}} \cup {{t} : t \in Titles}, url : {{}},
             category : CategoryInputs, description : {{}},
             visible : VisibleInputs, order : OrderInputs] :
     Cardinality(Given(data)) <= MaxPatchFields}

ReorderInputs == SeqsUpTo(Ids, MaxSeqLen)

\* ------------------------------------------------------------------ store
\* SELECT ... FROM bookmarks ORDER BY "order" ASC, then the stable sort of
\* listBookmarks: by category index (a category that is not in the table last),
\* then by "order"; rows that compare equal come in the order the query gave
\* them, which SQL leaves open when their "order" values are equal too.
IndexOf(list, x) ==
  IF x \in Range(list) THEN Min({i \in 1..Len(list) : list[i] = x}) - 1 ELSE -1

\* SELECT category FROM category_order ORDER BY "order" ASC
CategoryList(table) ==
  CHOOSE s \in [1..Cardinality(DOMAIN table) -> DOMAIN table] :
    /\ Range(s) = DOMAIN table
    /\ \A i, j \in DOMAIN s : i < j => table[s[i]] < table[s[j]]

\* a comparator that looks at "order" only
CompareOrdersOnly(list, a, b) == a.order - b.order

\* the comparator of listBookmarks' sort: negative, zero or positive
Compare(list, a, b) ==
  LET indexA == IndexOf(list, normalizeCategory({a.category}))
      indexB == IndexOf(list, normalizeCategory({b.category}))
  IN  IF indexA # indexB
        THEN IF indexA = -1 THEN 1
             ELSE IF indexB = -1 THEN -1
             ELSE indexA - indexB
        ELSE a.order - b.order

listBookmarks(rows, table) ==
  LET list == CategoryList(table)
      n == Cardinality(DOMAIN rows)
  IN  {[i \in 1..n |-> RowToRecord(p[i], rows[p[i]])] :
         p \in {q \in [1..n -> DOMAIN rows] :
                  /\ Range(q) = DOMAIN rows
                  /\ \A i, j \in 1..n :
                       i < j => Compare(list, rows[q[i]], rows[q[j]]) <= 0}}

Insert(rows, id, row) ==
  [i \in DOMAIN rows \cup {id} |-> IF i = id THEN row ELSE rows[i]]

Remove(rows, id) == [i \in DOMAIN rows \ {id} |-> rows[i]]

createBookmark(id, data) ==
  LET category == normalizeCategory(data.category)
      maxOrder == MaxOrderWhere(bookmarks, OrNull(category))
      order == maxOrder + 1
      row == [title |-> data.title, url |-> data.url,
              category |-> OrNull(category),
              description |-> OrNull(Coalesce(data.description, <<>>)),
              visible |-> Opt(data.visible, TRUE),
              order |-> order]
  IN  /\ id \notin DOMAIN bookmarks        \* crypto.randomUUID()
      /\ order <= MaxOrder
      /\ bookmarks' = Insert(bookmarks, id, row)
      /\ last' = [op |-> "create", id |-> id, found |-> FALSE]

\* createBookmark by caller p up to the await between its two queries: the
\* MAX query has answered. alone records that no other call is in flight; a
\* call that starts while others are in flight ends that for them too.
ReadMaxOrder(p, data) ==
  LET category == normalizeCategory(data.category)
      maxOrder == MaxOrderWhere(bookmarks, OrNull(category))
  IN  /\ calls[p].pc = "idle"
      /\ maxOrder + 1 <= MaxOrder
      /\ calls' = [q \in Callers |->
                     IF q = p
                       THEN [pc |-> "insert", data |-> data, maxOrder |-> maxOrder,
                             alone |-> \A o \in Callers \ {p} : calls[o].pc = "idle"]
                     ELSE IF calls[q].pc = "insert"
                       THEN [calls[q] EXCEPT !.alone = FALSE]
                     ELSE calls[q]]
      /\ UNCHANGED <<bookmarks, last>>

\* the rest of createBookmark by caller p: the INSERT with the order computed
\* from the maximum it read, under the UUID id
InsertRow(p, id) ==
  /\ calls[p].pc = "insert"
  /\ id \notin DOMAIN bookmarks        \* crypto.randomUUID()
  /\ LET data == calls[p].data
         category == normalizeCategory(data.category)
         row == [title |-> data.title, url |-> data.url,
                 category |-> OrNull(category),
                 description |-> OrNull(Coalesce(data.description, <<>>)),
                 visible |-> Opt(data.visible, TRUE),
                 order |-> calls[p].maxOrder + 1]
     IN  bookmarks' = Insert(bookmarks, id, row)
  /\ calls' = [calls EXCEPT ![p] = Idle]
  /\ last' = [op |-> "create", id |-> id, found |-> FALSE]

\* updateBookmark on a row that exists: the rows after the call
UpdatedRows(rows, id, data) ==
  LET current == rows[id]
      oldCategory == normalizeCategory({current.category})
      newCategory == normalizeCategory(data.category)
      changed == newCategory # oldCategory
      shifted == IF changed
                   THEN ShiftDown(rows, OrNull(oldCategory), current.order)
                   ELSE rows
      dataOrder == IF changed
                     THEN {MaxOrderWhere(shifted, OrNull(newCategory)) + 1}
                     ELSE data.order
      title == Opt(data.title, current.title)
      url == Opt(data.url, current.url)
      category == IF data.category # {}
                    THEN OrNull(normalizeCategory(data.category))
                    ELSE OrNull(current.category)
      description == IF data.description # {}
                       THEN OrNull(Coalesce(data.description, <<>>))
                       ELSE OrNull(current.description)
      visible == Opt(data.visible, current.visible # FALSE)
      order == Opt(dataOrder, current.order)
  IN  [shifted EXCEPT ![id] =
         [title |-> title, url |-> url, category |-> category,
          description |-> description, visible |-> visible, order |-> order]]

updateBookmark(id, data) ==
  IF id \notin DOMAIN bookmarks
    THEN /\ bookmarks' = bookmarks
         /\ last' = [op |-> "update", id |-> id, found |-> FALSE]
    ELSE LET rows == UpdatedRows(bookmarks, id, data)
         IN  /\ rows[id].order <= MaxOrder
             /\ bookmarks' = rows
             /\ last' = [op |-> "update", id |-> id, found |-> TRUE]

\* deleteBookmark on a row that exists: the rows after the call
DeletedRows(rows, id) ==
  LET deleted == rows[id]
      category == normalizeCategory({deleted.category})
      order == deleted.order
  IN  Remove(ShiftDown(rows, OrNull(category), order), id)

\* deleteBookmark that answers an unknown id as if it had deleted a row
deleteBookmarkNeverNull(id) ==
  IF id \notin DOMAIN bookmarks
    THEN /\ bookmarks' = bookmarks
         /\ last' = [op |-> "delete", id |-> id, found |-> TRUE]
    ELSE /\ bookmarks' = DeletedRows(bookmarks, id)
         /\ last' = [op |-> "delete", id |-> id, found |-> TRUE]

deleteBookmark(id) ==
  IF id \notin DOMAIN bookmarks
    THEN /\ bookmarks' = bookmarks
         /\ last' = [op |-> "delete", id |-> id, found |-> FALSE]
    ELSE /\ bookmarks' = DeletedRows(bookmarks, id)
         /\ last' = [op |-> "delete", id |-> id, found |-> TRUE]

\* for (i = 0; i < order.length; i++) UPDATE bookmarks SET "order" = i WHERE id = order[i]
RECURSIVE AssignInTurn(_, _, _)
AssignInTurn(rows, order, i) ==
  IF i >= Len(order) THEN rows
  ELSE AssignInTurn(
         IF order[i + 1] \in DOMAIN rows
           THEN [rows EXCEPT ![order[i + 1]].order = i]
           ELSE rows,
         order, i + 1)

\* SELECT id FROM bookmarks: every row once, in an order the query leaves open
SelectIds(rows) ==
  {s \in [1..Cardinality(DOMAIN rows) -> DOMAIN rows] : Range(s) = DOMAIN rows}

\* allIds.filter(id => !order.includes(id))
MissingIds(allIds, order) == SelectSeq(allIds, LAMBDA id : id \notin Range(order))

\* the second loop deleting the rows it should renumber
AppendMissingDropped(rows, missingIds, first) ==
  [i \in DOMAIN rows \ Range(missingIds) |-> rows[i]]

\* for (const id of missingIds) UPDATE ... SET "order" = nextOrder++ WHERE id = id
AppendMissing(rows, missingIds, first) ==
  [i \in DOMAIN rows |->
     IF i \in Range(missingIds)
       THEN [rows[i] EXCEPT !.order = first + IndexOf(missingIds, i)]
       ELSE rows[i]]

\* a reordering that leaves every order value as it was
ReorderedRowsUntouched(rows, order, allIds) == rows

ReorderedRows(rows, order, allIds) ==
  AppendMissing(AssignInTurn(rows, order, 0), MissingIds(allIds, order), Len(order))

reorderBookmarks(order) ==
  \E allIds \in SelectIds(bookmarks) :
    LET rows == ReorderedRows(bookmarks, order, allIds)
    IN  /\ bookmarks' = rows
        /\ last' = [op |-> "reorder", id |-> "", found |-> FALSE]

\* ------------------------------------------------------------------ settings
Rep(c, n) == [i \in 1..n |-> c]

MaxSiteTitleLength == 60

MaxSiteIconLength == 512

validThemes ==
  {<<"l", "i", "g", "h", "t">>, <<"d", "a", "r", "k">>,
   <<"f", "o", "r", "e", "s", "t">>, <<"o", "c", "e", "a", "n">>,
   <<"s", "u", "n", "r", "i", "s", "e">>,
   <<"t", "w", "i", "l", "i", "g", "h", "t">>}

\* a JavaScript string used as a condition: undefined, null and "" are falsy
Truthy(x) == x # {} /\ x # {NULL} /\ x # {<<>>}

SettingsInputs ==
  [theme : {{}, {<<>>}, {<<"d", "a", "r", "k">>}, {<<"o", "c", "e", "a", "n">>},
            {<<"n", "e", "o", "n">>}},
   siteTitle : {{}, {<<>>}, {Rep("x", MaxSiteTitleLength)},
                {Rep("x", MaxSiteTitleLength + 1)}},
   siteIcon : {{}, {<<"i">>}, {Rep("y", MaxSiteIconLength)},
               {Rep("y", MaxSiteIconLength + 1)}}]

\* the three checks of updateSettings, in the order the code makes them:
\* the message of the first that fails, "" when none does
ValidationError(data) ==
  IF Truthy(data.theme) /\ Opt(data.theme, NULL) \notin validThemes
    THEN "theme"
  ELSE IF Truthy(data.siteTitle) /\ Len(Opt(data.siteTitle, <<>>)) > MaxSiteTitleLength
    THEN "siteTitle"
  ELSE IF Truthy(data.siteIcon) /\ Len(Opt(data.siteIcon, <<>>)) > MaxSiteIconLength
    THEN "siteIcon"
  ELSE ""

\* INSERT INTO settings (key, value) ... ON CONFLICT (key) DO UPDATE SET value = ...
Upsert(table, key, value) ==
  [k \in DOMAIN table \cup {key} |-> IF k = key THEN value ELSE table[k]]

\* the writes of updateSettings, one per field that is not undefined
WrittenSettings(table, data) ==
  LET t1 == IF data.theme # {}
              THEN Upsert(table, "theme", Opt(data.theme, NULL)) ELSE table
      t2 == IF data.siteTitle # {}
              THEN Upsert(t1, "siteTitle", Opt(data.siteTitle, NULL)) ELSE t1
      t3 == IF data.siteIcon # {}
              THEN Upsert(t2, "siteIcon", Opt(data.siteIcon, NULL)) ELSE t2
  IN  t3

updateSettings(data) ==
  IF ValidationError(data) # ""
    THEN /\ settings' = settings
         /\ last' = [op |-> "updateSettings", threw |-> ValidationError(data)]
    ELSE /\ settings' = WrittenSettings(settings, data)
         /\ last' = [op |-> "updateSettings", threw |-> ""]

SettingKeys == {"theme", "siteTitle", "siteIcon"}

\* the defaults of getSettings; the title (four CJK characters) and the icon
\* (one emoji) are written with ASCII stand-ins of the same length
DefaultSettings ==
  [theme |-> <<"l", "i", "g", "h", "t">>,
   siteTitle |-> <<"G", "R", "S", "Q">>,
   siteIcon |-> <<"#">>]

\* getSettings that ignores the stored rows
getSettingsDefaultsOnly(table) == DefaultSettings

\* SELECT key, value ... WHERE key IN ('theme', 'siteTitle', 'siteIcon'), the
\* rows written over the defaults
getSettings(table) ==
  [key \in SettingKeys |->
     IF key \in DOMAIN table THEN table[key] ELSE DefaultSettings[key]]

GetSettingsCall ==
  last' = [op |-> "getSettings", threw |-> "", ret |-> getSettings(settings)]

\* JSON.stringify(storageInstance?.config || null)
StorageConfigInputs == {<<"n", "u", "l", "l">>, <<"{", "}">>}

\* getStorage().save(): the row storage_config of the settings table
saveStorage(config) ==
  /\ settings' = Upsert(settings, "storage_config", config)
  /\ last' = [op |-> "saveStorage", threw |-> ""]

\* ------------------------------------------------------------------ category order
CategoryNames == {<<>>, <<"a">>, <<"b">>}

ReorderCategoryInputs == SeqsUpTo(CategoryNames, MaxSeqLen)

\* the loop of reorderBookmarkCategories from index i (1-based here) on:
\* INSERT (order[i], i) ON CONFLICT (category) DO UPDATE SET "order" = i
RECURSIVE InsertInTurn(_, _, _)
InsertInTurn(table, order, i) ==
  IF i > Len(order) THEN table
  ELSE InsertInTurn(Upsert(table, order[i], i - 1), order, i + 1)

\* the loop without the DELETE before it
ReorderedCategoriesKeepingOld(order) == InsertInTurn(categoryOrder, order, 1)

\* DELETE FROM category_order, then the loop
ReorderedCategories(order) == InsertInTurn(<<>>, order, 1)

reorderBookmarkCategories(order) ==
  /\ categoryOrder' = ReorderedCategories(order)
  /\ last' = [op |-> "reorderCategories", id |-> "", found |-> FALSE]

\* a call of listBookmarks: any list the two queries and the sort can give
ListCall ==
  \E list \in listBookmarks(bookmarks, categoryOrder) :
    last' = [op |-> "list", id |-> "", found |-> FALSE, ret |-> list]

\* ------------------------------------------------------------------ responses
\* sendJson(res, status, payload): kind tells what the payload is
sendJson(status, kind, payload) == [status |-> status, kind |-> kind, body |-> payload]

\* sendError(res, status, message)
sendError(status, message) == [status |-> status, kind |-> "error", body |-> message]

\* ------------------------------------------------------------------ auth gate
\* A token is a string whose first character is the key that signed it and
\* whose second character is "1" while it has not expired and "0" afterwards.
JWT_SECRET == "k"

Bearer == <<"B", "e", "a", "r", "e", "r", " ">>

StartsWith(s, prefix) ==
  Len(s) >= Len(prefix) /\ SubSeq(s, 1, Len(prefix)) = prefix

\* String.prototype.substring(n)
Substring(s, n) == SubSeq(s, n + 1, Len(s))

\* jwt.verify(token, JWT_SECRET): does it return (TRUE) or throw (FALSE)
JwtVerifies(token) ==
  /\ Len(token) >= 2
  /\ token[1] = JWT_SECRET
  /\ token[2] = "1"

\* the decoded identity as a set: {} when verifyToken returns null
verifyToken(token) ==
  IF JwtVerifies(token) THEN {[username |-> "admin"]} ELSE {}

\* requireAuth: the error response it sends (none when it yields the identity)
RequireAuthResponses(authHeader) ==
  IF authHeader = {} \/ authHeader = {<<>>}
       \/ ~StartsWith(Opt(authHeader, <<>>), Bearer)
    THEN <<sendError(401, "no-token")>>
  ELSE IF verifyToken(Substring(Opt(authHeader, <<>>), 7)) = {}
    THEN <<sendError(401, "bad-token")>>
  ELSE <<>>

\* requireAuth without the check of verifyToken's result
requireAuthUnverified(authHeader) ==
  IF authHeader = {} \/ ~StartsWith(Opt(authHeader, <<>>), Bearer)
    THEN {}
    ELSE {[username |-> "admin"]}

\* requireAuth that returns an identity whatever it has answered
requireAuthNeverNull(authHeader) == {[username |-> "admin"]}

\* requireAuth: what it returns ({} for null)
requireAuth(authHeader) ==
  IF RequireAuthResponses(authHeader) # <<>>
    THEN {}
    ELSE verifyToken(Substring(Opt(authHeader, <<>>), 7))

\* getAuthFromRequest: the identity of a valid bearer token, null ({}) otherwise,
\* without answering the request
getAuthFromRequest(authHeader) ==
  IF authHeader = {} \/ ~StartsWith(Opt(authHeader, <<>>), Bearer)
    THEN {}
    ELSE verifyToken(Substring(Opt(authHeader, <<>>), 7))

\* ------------------------------------------------------------------ handler
AuthHeaders ==
  {{}, {<<"B", "a", "s", "i", "c", " ", "k", "1">>},
   {Bearer \o <<"k", "1">>}, {Bearer \o <<"f", "1">>}, {Bearer \o <<"k", "0">>}}

Https == <<"h", "t", "t", "p", "s", ":", "/", "/">>

Http == <<"h", "t", "t", "p", ":", "/", "/">>

ToLower(c) ==
  CASE c = "H" -> "h" [] c = "T" -> "t" [] c = "P" -> "p" [] c = "S" -> "s"
    [] OTHER -> c

LowerCase(s) == [i \in 1..Len(s) |-> ToLower(s[i])]

sanitizeUrl(url) ==
  LET trimmed == Trim(url)
  IN  IF StartsWith(LowerCase(trimmed), Https) \/ StartsWith(LowerCase(trimmed), Http)
        THEN trimmed
        ELSE Https \o trimmed

\* `x?.trim()` on an optional string
OptTrim(x) == IF x = {} THEN {} ELSE {Trim(Opt(x, <<>>))}

\* `x?.trim() || undefined`
OptTrimOrUndefined(x) == IF Truthy(OptTrim(x)) THEN OptTrim(x) ELSE {}

\* the parsed JSON body of a POST, or Unparsable when parseJsonBody throws
Unparsable == [unparsable |-> TRUE]

BodyInputs ==
  [title : {{}, {<<" ">>}, {<<"t", " ">>}},
   url : {{}, {<<" ">>}, {<<" ", "w">>}},
   category : {{}, {<<" ", "a">>}},
   description : {{}},
   visible : {{}, {FALSE}}]

\* the arguments with `body.visible ?? false` in place of `?? true`
CreateArgumentsHidden(body) ==
  [title |-> Opt(OptTrim(body.title), <<>>),
   url |-> sanitizeUrl(Opt(OptTrim(body.url), <<>>)),
   category |-> OptTrimOrUndefined(body.category),
   description |-> OptTrimOrUndefined(body.description),
   visible |-> {Opt(body.visible, FALSE)}]

\* the arguments the handler passes to createBookmark
CreateArguments(body) ==
  [title |-> Opt(OptTrim(body.title), <<>>),
   url |-> sanitizeUrl(Opt(OptTrim(body.url), <<>>)),
   category |-> OptTrimOrUndefined(body.category),
   description |-> OptTrimOrUndefined(body.description),
   visible |-> {Opt(body.visible, TRUE)}]

\* the record createBookmark returns
CreatedRecord(rows, id, data) ==
  [title |-> data.title, url |-> data.url, description |-> data.description,
   visible |-> data.visible, id |-> id,
   order |-> MaxOrderWhere(rows, OrNull(normalizeCategory(data.category))) + 1,
   category |-> OrNull(normalizeCategory(data.category))]

Exchange(method, authHeader, sent) ==
  [method |-> method, authorization |-> authHeader, sent |-> sent]

\* OPTIONS: handleOptions answers the preflight
handleOptions(authHeader) ==
  /\ res' = Exchange("OPTIONS", authHeader, <<sendJson(200, "preflight", <<>>)>>)
  /\ UNCHANGED <<bookmarks, categoryOrder, settings, last>>

\* GET with action=parse: handleParse fetches the page and never reads the store
handleParse(authHeader) ==
  /\ \E urlGiven \in BOOLEAN :
       res' = Exchange("GET", authHeader,
                <<IF urlGiven THEN sendJson(200, "parse", <<>>)
                              ELSE sendError(400, "missing-url")>>)
  /\ UNCHANGED <<bookmarks, categoryOrder, settings, last>>

\* item => item.visible !== false
VisibleOnly(list) == SelectSeq(list, LAMBDA item : item.visible # FALSE)

\* the GET branch without its visibility filter
GetBodyUnfiltered(auth, allBookmarks) == allBookmarks

\* the bookmarks the GET branch sends
GetBody(auth, allBookmarks) ==
  IF auth # {} THEN allBookmarks ELSE VisibleOnly(allBookmarks)

\* GET: dbOk is FALSE when a query of listBookmarks fails
handleGet(authHeader) ==
  /\ \E dbOk \in BOOLEAN :
       IF dbOk
         THEN \E allBookmarks \in listBookmarks(bookmarks, categoryOrder) :
                res' = Exchange("GET", authHeader,
                         <<sendJson(200, "bookmarks",
                                    GetBody(getAuthFromRequest(authHeader),
                                            allBookmarks))>>)
         ELSE res' = Exchange("GET", authHeader, <<sendError(500, "list-failed")>>)
  /\ UNCHANGED <<bookmarks, categoryOrder, settings, last>>

\* POST: body is the parsed body, or Unparsable when parseJsonBody throws; dbOk
\* is FALSE when a query of createBookmark fails, id is the UUID it draws.
\* What requireAuth has sent stays sent: the handler's own answer follows it.
handlePost(authHeader, body) ==
  LET denied == RequireAuthResponses(authHeader)
      auth == requireAuth(authHeader)
  IN  IF auth = {}
        THEN /\ res' = Exchange("POST", authHeader, denied)
             /\ UNCHANGED <<bookmarks, categoryOrder, settings, last>>
      ELSE IF body = Unparsable
        THEN /\ res' = Exchange("POST", authHeader,
                         denied \o <<sendError(500, "create-failed")>>)
             /\ UNCHANGED <<bookmarks, categoryOrder, settings, last>>
      ELSE IF ~Truthy(OptTrim(body.title)) \/ ~Truthy(OptTrim(body.url))
        THEN /\ res' = Exchange("POST", authHeader,
                         denied \o <<sendError(400, "title-url-empty")>>)
             /\ UNCHANGED <<bookmarks, categoryOrder, settings, last>>
      ELSE \E dbOk \in BOOLEAN :
             IF ~dbOk
               THEN /\ res' = Exchange("POST", authHeader,
                                denied \o <<sendError(500, "create-failed")>>)
                    /\ UNCHANGED <<bookmarks, categoryOrder, settings, last>>
               ELSE \E id \in Ids :
                      /\ createBookmark(id, CreateArguments(body))
                      /\ UNCHANGED <<categoryOrder, settings>>
                      /\ res' = Exchange("POST", authHeader,
                                  denied \o
                                  <<sendJson(201, "created",
                                             CreatedRecord(bookmarks, id,
                                                           CreateArguments(body)))>>)

\* any other method
handleOther(method, authHeader) ==
  /\ res' = Exchange(method, authHeader,
              <<sendError(405, "method-not-allowed")>>)
  /\ UNCHANGED <<bookmarks, categoryOrder, settings, last>>

\* /api/bookmarks: one request, from its arrival to the handler's return
handler(method, action, authHeader, body) ==
  IF method = "OPTIONS" THEN handleOptions(authHeader)
  ELSE IF method = "GET" /\ action = "parse" THEN handleParse(authHeader)
  ELSE IF method = "GET" THEN handleGet(authHeader)
  ELSE IF method = "POST" THEN handlePost(authHeader, body)
  ELSE handleOther(method, authHeader)

\* ------------------------------------------------------------------ specifications
Init ==
  /\ bookmarks = <<>>
  /\ categoryOrder = <<>>
  /\ settings = <<>>
  /\ last = NoCall
  /\ res = Exchange("", {}, <<>>)
  /\ calls = [p \in Callers |-> Idle]

CreateStep ==
  /\ \E id \in Ids, data \in CreateInputs : createBookmark(id, data)
  /\ UNCHANGED <<categoryOrder, settings, res, calls>>

UpdateStep ==
  /\ \E id \in Ids, data \in UpdateInputs : updateBookmark(id, data)
  /\ UNCHANGED <<categoryOrder, settings, res, calls>>

DeleteStep ==
  /\ \E id \in Ids : deleteBookmark(id)
  /\ UNCHANGED <<categoryOrder, settings, res, calls>>

ReorderStep ==
  /\ \E order \in ReorderInputs : reorderBookmarks(order)
  /\ UNCHANGED <<categoryOrder, settings, res, calls>>

UpdateSettingsStep ==
  /\ \E data \in SettingsInputs : updateSettings(data)
  /\ UNCHANGED <<bookmarks, categoryOrder, res, calls>>

OptionsRequest ==
  /\ \E authHeader \in AuthHeaders : handler("OPTIONS", "", authHeader, Unparsable)
  /\ UNCHANGED calls

ParseRequest ==
  /\ \E authHeader \in AuthHeaders : handler("GET", "parse", authHeader, Unparsable)
  /\ UNCHANGED calls

GetRequest ==
  /\ \E authHeader \in AuthHeaders : handler("GET", "", authHeader, Unparsable)
  /\ UNCHANGED calls

PostRequest ==
  /\ \E authHeader \in AuthHeaders, body \in BodyInputs \cup {Unparsable} :
       handler("POST", "", authHeader, body)
  /\ UNCHANGED calls

OtherRequest ==
  /\ \E authHeader \in AuthHeaders : handler("PUT", "", authHeader, Unparsable)
  /\ UNCHANGED calls

ReadMaxOrderStep ==
  /\ \E p \in Callers, data \in CreateInputs : ReadMaxOrder(p, data)
  /\ UNCHANGED <<categoryOrder, settings, res>>

InsertRowStep ==
  /\ \E p \in Callers, id \in Ids : InsertRow(p, id)
  /\ UNCHANGED <<categoryOrder, settings, res>>

\* createBookmark without a category or with the category b
CreateInBStep ==
  /\ \E id \in Ids, data \in CreateInputs :
       /\ data.category \in {{}, {<<"b">>}}
       /\ createBookmark(id, data)
  /\ UNCHANGED <<categoryOrder, settings, res, calls>>

ReorderCategoriesStep ==
  /\ \E order \in ReorderCategoryInputs : reorderBookmarkCategories(order)
  /\ UNCHANGED <<bookmarks, settings, res, calls>>

ListStep ==
  /\ ListCall
  /\ UNCHANGED <<bookmarks, categoryOrder, settings, res, calls>>

GetSettingsStep ==
  /\ GetSettingsCall
  /\ UNCHANGED <<bookmarks, categoryOrder, settings, res, calls>>

SaveStorageStep ==
  /\ \E config \in StorageConfigInputs : saveStorage(config)
  /\ UNCHANGED <<bookmarks, categoryOrder, res, calls>>

\* createBookmark, updateBookmark and deleteBookmark, one call at a time
NextCrud == CreateStep \/ UpdateStep \/ DeleteStep

SpecCrud == Init /\ [][NextCrud]_vars

\* the bookmark operations of the store, one call at a time
NextStore == CreateStep \/ UpdateStep \/ DeleteStep \/ ReorderStep

SpecStore == Init /\ [][NextStore]_vars

\* the three bookmark operations and the category order
NextDb == CreateStep \/ UpdateStep \/ DeleteStep \/ ReorderCategoriesStep

SpecDb == Init /\ [][NextDb]_vars

\* listing: bookmarks are created and deleted, the categories are reordered
\* and the list is read
NextList == CreateStep \/ DeleteStep \/ ReorderCategoriesStep \/ ListStep

SpecList == Init /\ [][NextList]_vars

\* the two reorderings, on bookmarks that are uncategorized or in category b
NextReorder == CreateInBStep \/ ReorderStep \/ ReorderCategoriesStep

SpecReorder == Init /\ [][NextReorder]_vars

\* createBookmark calls of two callers, interleaved at the await between the
\* MAX query and the INSERT
NextRace == ReadMaxOrderStep \/ InsertRowStep

SpecRace == Init /\ [][NextRace]_vars

\* the settings store
NextSettings == UpdateSettingsStep \/ GetSettingsStep \/ SaveStorageStep

SpecSettings == Init /\ [][NextSettings]_vars

\* requests to /api/bookmarks, one at a time
NextHttp ==
  OptionsRequest \/ ParseRequest \/ GetRequest \/ PostRequest \/ OtherRequest

SpecHttp == Init /\ [][NextHttp]_vars

\* ------------------------------------------------------------------ properties
\* the category a row is listed under: "" for a row without category
CategoryOf(row) == normalizeCategory({row.category})

InCategory(rows, c) == {i \in DOMAIN rows : CategoryOf(rows[i]) = c}

Categories(rows) == {CategoryOf(rows[i]) : i \in DOMAIN rows}

\* the order values of category c are exactly 0 .. n-1, n its number of bookmarks
OrdersExact(rows, c) ==
  {rows[i].order : i \in InCategory(rows, c)}
    = 0..(Cardinality(InCategory(rows, c)) - 1)

Contiguous(rows) == \A c \in Categories(rows) : OrdersExact(rows, c)

\* the greatest order value in category c, -1 when c holds no bookmark
MaxOrderIn(rows, c) ==
  IF InCategory(rows, c) = {} THEN -1
  ELSE Max({rows[i].order : i \in InCategory(rows, c)})

\* C1: after any sequence of createBookmark, updateBookmark and deleteBookmark
\* calls from the empty store, the order values of every category, the
\* uncategorized one included, are exactly {0, ..., n-1}.
C1_OrdersExactAfterCrud == Contiguous(bookmarks)

\* C2: updateBookmark(id, {category: c2}) on a bookmark of another category c1
\* gives it the order max(c2) + 1 (0 when c2 is empty), decrements the order of
\* every bookmark of c1 that had a greater order, and changes no other order.
MovedToEnd(before, after, id, c2) ==
  /\ DOMAIN after = DOMAIN before
  /\ CategoryOf(after[id]) = c2
  /\ after[id].order = MaxOrderIn(before, c2) + 1
  /\ \A j \in DOMAIN before \ {id} :
       after[j].order =
         IF CategoryOf(before[j]) = CategoryOf(before[id])
              /\ before[j].order > before[id].order
           THEN before[j].order - 1
           ELSE before[j].order

C2_MoveAppendsAndClosesGap ==
  [][\A id \in Ids, data \in UpdateInputs :
       (/\ id \in DOMAIN bookmarks
        /\ Given(data) = {"category"}
        /\ normalizeCategory(data.category) # CategoryOf(bookmarks[id])
        /\ updateBookmark(id, data))
       => MovedToEnd(bookmarks, bookmarks', id, normalizeCategory(data.category))]_vars

\* C3: deleteBookmark(id) of an existing bookmark whose category has the orders
\* {0, ..., n-1} removes exactly that record and leaves the category with the
\* orders {0, ..., n-2}, in every category, the uncategorized one included.
C3_DeleteClosesGap ==
  [][\A id \in Ids :
       (/\ id \in DOMAIN bookmarks
        /\ OrdersExact(bookmarks, CategoryOf(bookmarks[id]))
        /\ deleteBookmark(id))
       => /\ DOMAIN bookmarks' = DOMAIN bookmarks \ {id}
          /\ OrdersExact(bookmarks', CategoryOf(bookmarks[id]))]_vars

\* C4: reorderBookmarks(seq), for a seq that names no id twice, gives seq[i]
\* the order i and gives the bookmarks that seq does not name the orders
\* len(seq), len(seq)+1, ... in the relative order they had before the call.
NoRepeat(order) == \A i, j \in 1..Len(order) : order[i] = order[j] => i = j

Reordered(before, after, order) ==
  LET missing == DOMAIN before \ Range(order)
  IN  /\ DOMAIN after = DOMAIN before
      /\ \A i \in 1..Len(order) :
           order[i] \in DOMAIN before => after[order[i]].order = i - 1
      /\ {after[m].order : m \in missing}
           = Len(order)..(Len(order) + Cardinality(missing) - 1)
      /\ \A m1, m2 \in missing :
           before[m1].order < before[m2].order => after[m1].order < after[m2].order

C4_ReorderAssignsPositions ==
  [][\A order \in ReorderInputs :
       (NoRepeat(order) /\ reorderBookmarks(order))
       => Reordered(bookmarks, bookmarks', order)]_vars

\* C5: GET /api/bookmarks leaves the store unchanged and, when it answers with
\* the bookmarks, sends every stored bookmark once if the request carries a
\* valid token, and otherwise exactly the stored bookmarks whose visible flag
\* is not false.
ValidAuthHeaders == {{Bearer \o <<JWT_SECRET, "1">>}}

Shown(rows, authHeader) ==
  {i \in DOMAIN rows : authHeader \in ValidAuthHeaders \/ rows[i].visible # FALSE}

SendsExactly(rows, authHeader, body) ==
  /\ Len(body) = Cardinality(Shown(rows, authHeader))
  /\ {body[k].id : k \in 1..Len(body)} = Shown(rows, authHeader)
  /\ \A k \in 1..Len(body) : body[k] = RowToRecord(body[k].id, rows[body[k].id])

C5_GetFiltersHidden ==
  [][res'.method = "GET"
       => /\ UNCHANGED <<bookmarks, categoryOrder, settings, last>>
          /\ Len(res'.sent) = 1
          /\ res'.sent[1].kind = "bookmarks"
               => /\ res'.sent[1].status = 200
                  /\ SendsExactly(bookmarks, res'.authorization,
                                  res'.sent[1].body)]_vars

\* C5 witness: an expired token, a store with a hidden and a visible bookmark,
\* and an answer that holds fewer bookmarks than the store
C5_Witness ==
  /\ res.method = "GET"
  /\ res.authorization = {Bearer \o <<JWT_SECRET, "0">>}
  /\ Len(res.sent) = 1
  /\ res.sent[1].kind = "bookmarks"
  /\ \E i, j \in DOMAIN bookmarks :
       bookmarks[i].visible = FALSE /\ bookmarks[j].visible = TRUE
  /\ Len(res.sent[1].body) >= 1
  /\ Len(res.sent[1].body) < Cardinality(DOMAIN bookmarks)

\* C6: a POST /api/bookmarks whose Authorization header is missing, does not
\* start with "Bearer " or carries a token that fails verification is answered
\* 401, once, and changes nothing; a POST with a token that verifies is not
\* answered 401, and only such a POST adds a bookmark.
C6_PostNeedsValidToken ==
  [][res'.method = "POST"
       => /\ Len(res'.sent) = 1
          /\ IF res'.authorization \in ValidAuthHeaders
               THEN res'.sent[1].status # 401
               ELSE /\ res'.sent[1].status = 401
                    /\ UNCHANGED <<bookmarks, categoryOrder, settings, last>>]_vars

\* C6 witness: a POST with a token of a foreign key, answered 401 on a store
\* that holds a bookmark
C6_Witness ==
  /\ res.method = "POST"
  /\ res.authorization = {Bearer \o <<"f", "1">>}
  /\ Len(res.sent) = 1
  /\ res.sent[1].status = 401
  /\ bookmarks # <<>>

\* C7: createBookmark(data) adds exactly one record with a fresh id, the
\* trimmed category and the order max + 1 of that category (0 when it is
\* empty), in every category, the uncategorized one included, and returns the
\* stored record.
Created(before, after, id, data) ==
  LET c == Trim(Coalesce(data.category, <<>>))
      ret == CreatedRecord(before, id, data)
  IN  /\ id \notin DOMAIN before
      /\ DOMAIN after = DOMAIN before \cup {id}
      /\ \A j \in DOMAIN before : after[j] = before[j]
      /\ CategoryOf(after[id]) = c
      /\ after[id].order = MaxOrderIn(before, c) + 1
      /\ ret.id = id
      /\ ret.title = after[id].title
      /\ ret.url = after[id].url
      /\ ret.category = after[id].category
      /\ ret.order = after[id].order

C7_CreateAppends ==
  [][\A id \in Ids, data \in CreateInputs :
       createBookmark(id, data) => Created(bookmarks, bookmarks', id, data)]_vars

\* C8: updateBookmark(id, patch) with a patch that contains no category (and
\* no order) leaves the bookmark's category and order as they were and changes
\* the order of no other bookmark.
C8_PatchKeepsOrder ==
  [][\A id \in Ids, data \in UpdateInputs :
       (/\ id \in DOMAIN bookmarks
        /\ data.category = {}
        /\ data.order = {}
        /\ updateBookmark(id, data))
       => /\ DOMAIN bookmarks' = DOMAIN bookmarks
          /\ bookmarks'[id].category = bookmarks[id].category
          /\ \A j \in DOMAIN bookmarks :
               bookmarks'[j].order = bookmarks[j].order]_vars

\* C9: reorderBookmarks(seq) on a store that holds bookmarks in two or more
\* categories, each with contiguous orders from 0, leaves every category with
\* contiguous orders from 0.
C9_ReorderKeepsContiguity ==
  [][\A order \in ReorderInputs :
       (/\ Cardinality(Categories(bookmarks)) >= 2
        /\ Contiguous(bookmarks)
        /\ reorderBookmarks(order))
       => Contiguous(bookmarks')]_vars

\* C10: updateSettings(patch) with a theme outside the allowed set, a siteTitle
\* longer than 60 or a siteIcon longer than 512 raises an error and leaves
\* every stored setting unchanged.
Invalid(data) ==
  \/ data.theme # {} /\ Opt(data.theme, <<>>) \notin validThemes
  \/ data.siteTitle # {} /\ Len(Opt(data.siteTitle, <<>>)) > MaxSiteTitleLength
  \/ data.siteIcon # {} /\ Len(Opt(data.siteIcon, <<>>)) > MaxSiteIconLength

C10_InvalidPatchWritesNothing ==
  [][\A data \in SettingsInputs :
       (Invalid(data) /\ updateSettings(data))
       => (last'.threw # "" /\ settings' = settings)]_vars

\* C11: after any sequence of updateSettings calls, failing ones included, a
\* stored theme is one of the six valid themes, a stored siteTitle has at most
\* 60 characters and a stored siteIcon at most 512 (a patch with a theme outside
\* the set, the empty string included, is rejected and so never stored).
C11_StoredSettingsValid ==
  /\ "theme" \in DOMAIN settings => settings["theme"] \in validThemes
  /\ "siteTitle" \in DOMAIN settings
       => Len(settings["siteTitle"]) <= MaxSiteTitleLength
  /\ "siteIcon" \in DOMAIN settings
       => Len(settings["siteIcon"]) <= MaxSiteIconLength

\* C12: updateBookmark(id, patch) and deleteBookmark(id) with an id that is
\* not in the store return null (found is FALSE) and leave every bookmark
\* row, every order value and the category-order table unchanged.
NotFoundResult ==
  /\ ~last'.found
  /\ bookmarks' = bookmarks
  /\ categoryOrder' = categoryOrder

C12_UnknownIdChangesNothing ==
  [][\A id \in Ids \ DOMAIN bookmarks :
       last'.id = id
       => /\ \A data \in UpdateInputs : updateBookmark(id, data) => NotFoundResult
          /\ deleteBookmark(id) => NotFoundResult]_vars

\* an unknown id was given while bookmarks and a category order were stored
C12_Witness ==
  /\ last.op \in {"update", "delete"}
  /\ ~last.found
  /\ last.id \notin DOMAIN bookmarks
  /\ bookmarks # <<>>
  /\ categoryOrder # <<>>

\* C13 as stated: after reorderBookmarkCategories(seq) the category-order
\* table holds exactly the categories of seq, each with its index in seq as
\* order, so that the orders are exactly 0 .. Len(seq)-1, for every seq, one
\* with a repeated category included.
OrderValues(table) == {table[c] : c \in DOMAIN table}

C13_TableIsSequence ==
  [][\A order \in ReorderCategoryInputs :
       (last'.op = "reorderCategories" /\ reorderBookmarkCategories(order))
       => /\ DOMAIN categoryOrder' = Range(order)
          /\ \A i \in 1..Len(order) : categoryOrder'[order[i]] = i - 1
          /\ OrderValues(categoryOrder') = 0..(Len(order) - 1)]_vars

\* C13 amended: after reorderBookmarkCategories(seq) the category-order table
\* holds exactly the categories of seq and nothing that was there before, each
\* with the last index at which it occurs in seq as order; the orders are
\* exactly 0 .. Len(seq)-1 when no category is repeated in seq.
LastIndex(order, c) == Max({i \in 1..Len(order) : order[i] = c}) - 1

C13_TableIsSequenceByLastIndex ==
  [][\A order \in ReorderCategoryInputs :
       (last'.op = "reorderCategories" /\ reorderBookmarkCategories(order))
       => /\ DOMAIN categoryOrder' = Range(order)
          /\ \A c \in Range(order) : categoryOrder'[c] = LastIndex(order, c)
          /\ NoRepeat(order)
               => OrderValues(categoryOrder') = 0..(Len(order) - 1)]_vars

\* a sequence with a repeated category was stored: its one row has order 1
C13_Witness ==
  /\ last.op = "reorderCategories"
  /\ 1 \in OrderValues(categoryOrder)
  /\ 0 \notin OrderValues(categoryOrder)

\* C14: listBookmarks returns every stored bookmark exactly once; bookmarks of
\* categories listed in the category-order table come in that table's order,
\* bookmarks of categories not in the table come after all listed ones, and
\* bookmarks of the same category are in ascending order value.
Listed(record) == normalizeCategory({record.category}) \in DOMAIN categoryOrder

ListedOrder(record) == categoryOrder[normalizeCategory({record.category})]

EveryBookmarkOnce(list) ==
  /\ Len(list) = Cardinality(DOMAIN bookmarks)
  /\ {list[i].id : i \in 1..Len(list)} = DOMAIN bookmarks
  /\ \A i \in 1..Len(list) : list[i] = RowToRecord(list[i].id, bookmarks[list[i].id])

InListingOrder(list) ==
  \A i, j \in 1..Len(list) :
    i < j =>
      /\ Listed(list[i]) /\ Listed(list[j])
           => ListedOrder(list[i]) <= ListedOrder(list[j])
      /\ Listed(list[j]) => Listed(list[i])
      /\ normalizeCategory({list[i].category}) = normalizeCategory({list[j].category})
           => list[i].order <= list[j].order

C14_ListIsCompleteAndSorted ==
  last.op = "list" => EveryBookmarkOnce(last.ret) /\ InListingOrder(last.ret)

\* a list of three bookmarks: a listed category before an unlisted one, and
\* two bookmarks of one category with different orders
C14_Witness ==
  /\ last.op = "list"
  /\ Len(last.ret) = 3
  /\ \E i, j \in 1..Len(last.ret) : Listed(last.ret[i]) /\ ~Listed(last.ret[j])
  /\ \E i, j \in 1..Len(last.ret) :
       /\ last.ret[i].category = last.ret[j].category
       /\ last.ret[i].order < last.ret[j].order

\* C15: two createBookmark calls for the same category that both read the
\* maximum order before either inserts can store the same order value, so two
\* bookmarks of one category sharing an order are reachable; when the calls run
\* one after the other, the later one gets a strictly greater order than the
\* bookmarks already in its category.
C15_SequentialCreateIsGreater ==
  [][\A p \in Callers, id \in Ids :
       (/\ calls[p].pc = "insert"
        /\ calls[p].alone
        /\ InsertRow(p, id))
       => \A j \in InCategory(bookmarks, CategoryOf(bookmarks'[id])) :
            bookmarks'[id].order > bookmarks[j].order]_vars

\* two bookmarks of one named category share an order value
C15_SharedOrder ==
  \E i, j \in DOMAIN bookmarks :
    /\ i # j
    /\ bookmarks[i].category # NULL
    /\ bookmarks[i].category = bookmarks[j].category
    /\ bookmarks[i].order = bookmarks[j].order

\* C16: an authenticated POST /api/bookmarks whose title or url is missing or
\* blank after trimming is answered 400 and creates no bookmark; otherwise it
\* is answered 201 with the created record, which is then in the store, with
\* visible true when the body gives none (or, when the store fails, 500 and no
\* bookmark).
Blank(x) == x = {} \/ Trim(Opt(x, <<>>)) = <<>>

\* the answer sent is the record of a row that the step added to the store
AnsweredWithStored(body, sent) ==
  LET id == sent.body.id
  IN  /\ sent.kind = "created"
      /\ id \notin DOMAIN bookmarks
      /\ DOMAIN bookmarks' = DOMAIN bookmarks \cup {id}
      /\ \A j \in DOMAIN bookmarks : bookmarks'[j] = bookmarks[j]
      /\ bookmarks'[id].title = sent.body.title
      /\ bookmarks'[id].url = sent.body.url
      /\ bookmarks'[id].category = sent.body.category
      /\ bookmarks'[id].order = sent.body.order
      /\ sent.body.visible = {bookmarks'[id].visible}
      /\ bookmarks'[id].title = Trim(Opt(body.title, <<>>))
      /\ bookmarks'[id].visible = Opt(body.visible, TRUE)

PostAnswer(body) ==
  /\ Len(res'.sent) = 1
  /\ IF Blank(body.title) \/ Blank(body.url)
       THEN /\ res'.sent[1].status = 400
            /\ bookmarks' = bookmarks
       ELSE \/ /\ res'.sent[1].status = 201
               /\ AnsweredWithStored(body, res'.sent[1])
            \/ /\ res'.sent[1].status = 500
               /\ bookmarks' = bookmarks

\* (stated by contraposition: a step that is not the answer described for
\* body is not a step of the handler on body)
C16_PostValidatesThenCreates ==
  [][\A authHeader \in ValidAuthHeaders :
       (res'.method = "POST" /\ res'.authorization = authHeader)
       => \A body \in BodyInputs :
            ~PostAnswer(body) => ~handler("POST", "", authHeader, body)]_vars

\* an authenticated POST was answered 201 and its bookmark is stored visible
C16_Witness ==
  /\ res.method = "POST"
  /\ res.authorization \in ValidAuthHeaders
  /\ Len(res.sent) = 1
  /\ res.sent[1].status = 201
  /\ res.sent[1].body.id \in DOMAIN bookmarks
  /\ res.sent[1].body.visible = {TRUE}
  /\ bookmarks[res.sent[1].body.id].visible

\* C17: a successful updateSettings(patch) changes only the setting keys
\* present in the patch and leaves the stored value of every other key
\* unchanged; getSettings returns for each of theme, siteTitle and siteIcon
\* the stored value when one exists and the default otherwise.
InPatch(data, key) == key \in SettingKeys /\ data[key] # {}

OtherKeysKept(data) ==
  \A key \in (DOMAIN settings \cup DOMAIN settings') :
    ~InPatch(data, key)
      => /\ key \in DOMAIN settings
         /\ key \in DOMAIN settings'
         /\ settings'[key] = settings[key]

StoredOrDefault(ret, table) ==
  /\ DOMAIN ret = SettingKeys
  /\ \A key \in SettingKeys :
       ret[key] = IF key \in DOMAIN table THEN table[key] ELSE DefaultSettings[key]

C17_PatchedKeysOnlyAndDefaults ==
  [][/\ \A data \in SettingsInputs :
          (updateSettings(data) /\ last'.threw = "") => OtherKeysKept(data)
     /\ GetSettingsCall => StoredOrDefault(last'.ret, settings)]_vars

\* getSettings answered with a stored theme and the default title while the
\* table also holds the storage configuration
C17_Witness ==
  /\ last.op = "getSettings"
  /\ "theme" \in DOMAIN settings
  /\ last.ret["theme"] = settings["theme"]
  /\ last.ret["theme"] # DefaultSettings["theme"]
  /\ "siteTitle" \notin DOMAIN settings
  /\ last.ret["siteTitle"] = DefaultSettings["siteTitle"]
  /\ "storage_config" \in DOMAIN settings

\* C18: after reorderBookmarks(seq) with seq a permutation of all stored ids,
\* the order values are pairwise distinct and are exactly {0, ..., N-1}, and
\* listBookmarks returns the bookmarks of each category in the relative order
\* in which they occur in seq.
IsPermutationOfIds(order) ==
  /\ Len(order) = Cardinality(DOMAIN bookmarks)
  /\ Range(order) = DOMAIN bookmarks

PositionIn(list, id) == Min({k \in 1..Len(list) : list[k].id = id})

ListedAsIn(order, list) ==
  \A i, j \in 1..Len(order) :
    (i < j /\ CategoryOf(bookmarks'[order[i]]) = CategoryOf(bookmarks'[order[j]]))
      => PositionIn(list, order[i]) < PositionIn(list, order[j])

C18_PermutationGivesPositions ==
  [][\A order \in ReorderInputs :
       (/\ last'.op = "reorder"
        /\ IsPermutationOfIds(order)
        /\ reorderBookmarks(order))
       => /\ \A i, j \in DOMAIN bookmarks' :
               i # j => bookmarks'[i].order # bookmarks'[j].order
          /\ {bookmarks'[i].order : i \in DOMAIN bookmarks'}
               = 0..(Cardinality(DOMAIN bookmarks) - 1)
          /\ \A list \in listBookmarks(bookmarks', categoryOrder') :
               ListedAsIn(order, list)]_vars

\* two bookmarks of one category were put in an order that is not the order
\* of their ids, and a category order is stored
C18_Witness ==
  /\ last.op = "reorder"
  /\ Cardinality(DOMAIN bookmarks) = 2
  /\ {bookmarks[i].order : i \in DOMAIN bookmarks} = {0, 1}
  /\ \A i, j \in DOMAIN bookmarks : bookmarks[i].category = bookmarks[j].category
  /\ "b2" \in DOMAIN bookmarks /\ bookmarks["b2"].order = 0
  /\ categoryOrder # <<>>

\* C19: deleteBookmark and a category-changing updateBookmark never change the
\* relative listing order of the other bookmarks: of two bookmarks other than
\* the deleted or moved one, in the same category and with distinct orders,
\* the one listed first before the call is still listed first after it.
CategoryChanging(id, data) ==
  /\ data.category # {}
  /\ normalizeCategory(data.category) # CategoryOf(bookmarks[id])

OthersKeepListingOrder(id) ==
  \A a, b \in DOMAIN bookmarks \ {id} :
    (/\ CategoryOf(bookmarks[a]) = CategoryOf(bookmarks[b])
     /\ bookmarks[a].order < bookmarks[b].order)
    => /\ CategoryOf(bookmarks'[a]) = CategoryOf(bookmarks'[b])
       /\ bookmarks'[a].order < bookmarks'[b].order

\* deleteBookmark(id), or updateBookmark(id, patch) with a patch that names
\* another category than the bookmark's
DeletesOrMoves(id) ==
  /\ last'.id = id
  /\ \/ deleteBookmark(id)
     \/ \E data \in UpdateInputs :
          CategoryChanging(id, data) /\ updateBookmark(id, data)

C19_OthersKeepListingOrder ==
  [][\A id \in DOMAIN bookmarks :
       DeletesOrMoves(id) => OthersKeepListingOrder(id)]_vars

\* C19 amended: the same, provided that no other bookmark of the category of
\* the deleted or moved bookmark has the same order value as it.
OrderNotShared(id) ==
  \A j \in DOMAIN bookmarks \ {id} :
    ~(/\ CategoryOf(bookmarks[j]) = CategoryOf(bookmarks[id])
      /\ bookmarks[j].order = bookmarks[id].order)

C19_OthersKeepListingOrderUnlessShared ==
  [][\A id \in DOMAIN bookmarks :
       (OrderNotShared(id) /\ DeletesOrMoves(id))
       => OthersKeepListingOrder(id)]_vars

\* a bookmark was deleted and the two that are left share a named category,
\* one of them with the order 0 and the other with the order 1
C19_Witness ==
  /\ last.op = "delete"
  /\ last.found
  /\ Cardinality(DOMAIN bookmarks) = 2
  /\ \A i \in DOMAIN bookmarks : bookmarks[i].category = <<"b">>
  /\ {bookmarks[i].order : i \in DOMAIN bookmarks} = {0, 1}

\* C20: reorderBookmarks and reorderBookmarkCategories never add or remove a
\* bookmark and never change a bookmark's id, title, url, category,
\* description or visible flag: reorderBookmarks changes only order values (an
\* id of seq that is not in the store changes nothing) and
\* reorderBookmarkCategories changes only the category-order table.
SameButOrder(before, after) ==
  /\ DOMAIN after = DOMAIN before
  /\ \A i \in DOMAIN before : [after[i] EXCEPT !.order = before[i].order] = before[i]

OnlyOrdersChange ==
  /\ SameButOrder(bookmarks, bookmarks')
  /\ categoryOrder' = categoryOrder
  /\ settings' = settings

OnlyCategoryOrderChanges ==
  /\ bookmarks' = bookmarks
  /\ settings' = settings

\* (every step records its call in last, so last'.op names the operation that
\* made the step, whatever its sequence was)
C20_ReorderingsKeepBookmarks ==
  [][/\ last'.op = "reorder" => OnlyOrdersChange
     /\ last'.op = "reorderCategories" => OnlyCategoryOrderChanges]_vars

\* reorderBookmarks changed the order of a hidden bookmark of category b on
\* a store with a category order and fewer than three bookmarks, so that an
\* id of the sequence may be unknown
C20_Witness ==
  /\ last.op = "reorder"
  /\ categoryOrder # <<>>
  /\ Cardinality(DOMAIN bookmarks) = 2
  /\ \E i \in DOMAIN bookmarks :
       /\ bookmarks[i].visible = FALSE
       /\ bookmarks[i].category = <<"b">>
       /\ bookmarks[i].order = 1

\* C21: the bookmarks handler sends exactly one response for every request on
\* every path: OPTIONS gets 200 without touching the store, GET and POST get
\* one success or error response (the 401, 400 and 500 paths included, and no
\* second response after requireAuth has answered), and any other method gets
\* 405 without touching the store.
StoreUntouched == UNCHANGED <<bookmarks, categoryOrder, settings>>

OneResponse(exchange) ==
  /\ Len(exchange.sent) = 1
  /\ CASE exchange.method = "OPTIONS" -> exchange.sent[1].status = 200
       [] exchange.method = "GET" -> exchange.sent[1].status \in {200, 400, 500}
       [] exchange.method = "POST" -> exchange.sent[1].status \in {201, 400, 401, 500}
       [] OTHER -> exchange.sent[1].status = 405

C21_ExactlyOneResponse ==
  [][/\ OneResponse(res')
     /\ res'.method \notin {"GET", "POST"} => StoreUntouched
     /\ (res'.method = "POST" /\ RequireAuthResponses(res'.authorization) # <<>>)
          => /\ res'.sent = RequireAuthResponses(res'.authorization)
             /\ StoreUntouched]_vars

\* requireAuth answered a POST with an expired token, on a store that holds a
\* bookmark, and its 401 is the only response of the exchange
C21_Witness ==
  /\ res.method = "POST"
  /\ res.authorization = {Bearer \o <<JWT_SECRET, "0">>}
  /\ res.sent = <<sendError(401, "bad-token")>>
  /\ bookmarks # <<>>

====
